---- MODULE Spec2Model ----
(***************************************************************************)
(* Model of the questionnaire controller hook useQuestionnaire             *)
(* (src/src/core/hooks/useQuestionnaire.ts, lines 1-409).                  *)
(*                                                                         *)
(* The hook is a React function component hook: its state lives in         *)
(* useState cells, its handlers are closures over the state of the render  *)
(* in which they were created, and its useEffect blocks run after every    *)
(* render in which one of their dependencies changed.  An action of this   *)
(* model is one JavaScript task: a handler invocation up to its first      *)
(* await (or its return), or the continuation of a suspended handler from  *)
(* one await to the next, followed by the re-render and the effects that   *)
(* the state updates of that task trigger.                                 *)
(*                                                                         *)
(* The options of a session: `config` is the three-step configuration      *)
(* below; `initialValues` is one object, the same on every render, so that *)
(* the effect that depends on it runs at mount and whenever currentStep    *)
(* changes; onCompleted is supplied; onBeforeNext and onBeforeBack are     *)
(* options of each render, so every invocation of a handler finds its gate *)
(* either absent or present.  Timers of equal duration fire in the order   *)
(* they were set; gates and onCompleted settle in any order.               *)
(***************************************************************************)
EXTENDS Integers, Sequences, FiniteSets, TLC

(***************************************************************************)
(* Bounds of the model.                                                    *)
(***************************************************************************)
\* number of handler invocations that may be suspended at the same time
MaxCalls == 2
\* number of operations the user of the hook invokes in one session when
\* operations may overlap, and when each one finishes before the next
MaxOps == 4
MaxSeqOps == 6
\* number of operations in a session in which the component also asks
\* isStepValid
MaxViewOps == 3
\* number of operations in a session of the hook with AnimatedQuestion
MaxAnimOps == 3

(***************************************************************************)
(* The step configuration (the `config` option) and the values a field    *)
(* can take.  Steps are numbered from 0 as in the source.                  *)
(***************************************************************************)
Values == {"ab", "a@b"}

\* a string check of a validator: the values it rejects and its message
MinThree == [fails |-> {"ab"}, message |-> "Too short"]
IsEmail == [fails |-> {"ab"}, message |-> "Invalid email"]

config ==
  << [questions |-> << [name |-> "note", type |-> "input", validated |-> FALSE,
                        checks |-> <<>>, skippable |-> FALSE] >>],
     [questions |-> << [name |-> "nick", type |-> "chips", validated |-> TRUE,
                        checks |-> <<MinThree, IsEmail>>, skippable |-> TRUE] >>],
     [questions |-> << [name |-> "email", type |-> "input", validated |-> TRUE,
                        checks |-> <<IsEmail>>, skippable |-> FALSE] >>] >>

\* the types the Registry holds: "input" is registered when the package is
\* loaded, and the session passes no customQuestionComponents
components == {"input"}

Length == Len(config)
Steps == 0 .. (Length - 1)
Names == UNION {{config[i].questions[k].name : k \in 1 .. Len(config[i].questions)} :
                  i \in 1 .. Len(config)}

\* the `initialStep` and `initialValues` options the session may be given
InitialSteps == {0}
EmptyMap == [n \in {} |-> ""]
InitialValueMaps == {EmptyMap, [n \in {"nick"} |-> "a@b"]}

(***************************************************************************)
(* Object helpers: { ...m, [k]: v } and { ...a, ...b }.                    *)
(***************************************************************************)
Put(m, k, v) == [x \in (DOMAIN m) \cup {k} |-> IF x = k THEN v ELSE m[x]]
Merge(a, b) ==
  [x \in (DOMAIN a) \cup (DOMAIN b) |-> IF x \in DOMAIN b THEN b[x] ELSE a[x]]
Has(m, k) == k \in DOMAIN m

(***************************************************************************)
(* Validation: createValidationSchema and schema.parse (zod).              *)
(***************************************************************************)
\* config[currentStep]; outside the range the lookup yields undefined, which
\* is modelled as a step without questions
Step(i) == IF i \in Steps THEN config[i + 1] ELSE [questions |-> <<>>]
Questions(i) == Step(i).questions
QIdx(i) == 1 .. Len(Questions(i))
StepNames(i) == {Questions(i)[k].name : k \in QIdx(i)}

\* currentStepData.questions.every((q) => !q.validation)
NoValidation(i) == \A k \in QIdx(i) : ~Questions(i)[k].validated
\* currentStepData.questions.every((q) => q.skippable)
AllSkippable(i) == \A k \in QIdx(i) : Questions(i)[k].skippable
\* currentStepData.questions.some((q) => q.skippable)
hasSkippableQuestions(i) == \E k \in QIdx(i) : Questions(i)[k].skippable

\* the issues one validated question contributes, in the order zod reports
\* them: a missing key is a type issue and stops the checks of that field,
\* otherwise every failing check of the field adds its own issue
FieldIssues(q, fd) ==
  IF ~q.validated THEN <<>>
  ELSE IF ~Has(fd, q.name) THEN << [field |-> q.name, message |-> "Required"] >>
  ELSE LET failing == SelectSeq(q.checks, LAMBDA c : fd[q.name] \in c.fails)
       IN  [k \in 1 .. Len(failing) |->
              [field |-> q.name, message |-> failing[k].message]]

RECURSIVE IssuesFrom(_, _, _)
IssuesFrom(i, k, fd) ==
  IF k > Len(Questions(i)) THEN <<>>
  ELSE FieldIssues(Questions(i)[k], fd) \o IssuesFrom(i, k + 1, fd)

\* error.errors of the ZodError thrown by schema.parse(formData); the empty
\* sequence when parse returns
Issues(i, fd) == IssuesFrom(i, 1, fd)
SchemaAccepts(i, fd) == Issues(i, fd) = <<>>

\* error.errors.reduce((acc, curr) => { if (keep) acc[field] = message })
ReduceErrors(issues, keep) ==
  LET idx == {k \in 1 .. Len(issues) : issues[k].field \in keep}
      last(f) == CHOOSE k \in idx : /\ issues[k].field = f
                                    /\ \A j \in idx : issues[j].field = f => j <= k
  IN  [f \in {issues[k].field : k \in idx} |-> issues[last(f)].message]

\* validateStep returning true whatever the schema says
validateStepResult_Always(i, fd) == TRUE

\* validateStep passing a step of skippable questions, as isStepValid does
validateStepResult_Skippable(i, fd) ==
  NoValidation(i) \/ AllSkippable(i) \/ SchemaAccepts(i, fd)

\* validateStep: its return value, and the dirtyFields and errors it sets
validateStepResult(i, fd) == NoValidation(i) \/ SchemaAccepts(i, fd)
\* the step's names added to dirtyFields instead of replacing it
validateStepDirty_Adds(i, dirty) ==
  IF NoValidation(i) THEN dirty ELSE dirty \cup StepNames(i)

validateStepDirty(i, dirty) == IF NoValidation(i) THEN dirty ELSE StepNames(i)
validateStepErrors(i, fd) ==
  IF NoValidation(i) THEN EmptyMap ELSE ReduceErrors(Issues(i, fd), Names)

\* isStepValid without its shortcut for steps of skippable questions
isStepValid_NoSkippable(i, fd) == NoValidation(i) \/ SchemaAccepts(i, fd)

\* isStepValid asking only that every question of the step has a value
isStepValid_Filled(i, fd) ==
  NoValidation(i) \/ AllSkippable(i) \/ \A n \in StepNames(i) : Has(fd, n)

\* isStepValid: the value it returns
isStepValid(i, fd) ==
  NoValidation(i) \/ AllSkippable(i) \/ SchemaAccepts(i, fd)

\* the effect returns early on a step without validators, as it does while
\* nothing is dirty
ErrorsEffect_Stale(i, fd, dirty, errs) ==
  IF dirty = {} \/ NoValidation(i) THEN errs
  ELSE ReduceErrors(Issues(i, fd), dirty)

\* the effect reports every failing field, touched or not
ErrorsEffect_Unfiltered(i, fd, dirty, errs) ==
  IF dirty = {} THEN errs
  ELSE IF NoValidation(i) THEN EmptyMap
  ELSE ReduceErrors(Issues(i, fd), Names)

\* the error recomputation effect (deps: formData, schema, questions,
\* dirtyFields): the errors it leaves behind
ErrorsEffect(i, fd, dirty, errs) ==
  IF dirty = {} THEN errs
  ELSE IF NoValidation(i) THEN EmptyMap
  ELSE ReduceErrors(Issues(i, fd), dirty)

(***************************************************************************)
(* Rendering the questions of a step (the Questionnaire component).  A     *)
(* result is either an element or a thrown error.                          *)
(***************************************************************************)
\* Registry.get: throws for a type that is not registered
RegistryGet(type) ==
  IF type \in components THEN [thrown |-> FALSE, component |-> type]
  ELSE [thrown |-> TRUE, component |-> "none"]

\* renderQuestionByType: no try/catch around Registry.get, and its test
\* `!Component` never succeeds since Registry.get does not return undefined
renderQuestionByType(q) ==
  IF RegistryGet(q.type).thrown THEN [thrown |-> TRUE, element |-> "none"]
  ELSE [thrown |-> FALSE, element |-> q.name]

\* currentStepData.questions.map(renderQuestionByType) inside the render of
\* Questionnaire: an error thrown for one question leaves the whole render
RenderedQuestions(i) ==
  IF \E k \in QIdx(i) : renderQuestionByType(Questions(i)[k]).thrown
    THEN [thrown |-> TRUE, elements |-> <<>>]
    ELSE [thrown |-> FALSE,
          elements |-> [k \in QIdx(i) |->
                          renderQuestionByType(Questions(i)[k]).element]]

(***************************************************************************)
(* State.                                                                  *)
(***************************************************************************)
VARIABLES
  initialValues,     \* the initialValues option (same object on every render)
  currentStep,       \* useState(initialStep)
  formData,          \* useState(initialValues)
  isForward,         \* useState(true)
  isSubmittingStep,  \* useState(false)
  isProcessingField, \* useState(false)
  stepHistory,       \* useState({[initialStep]: initialValues})
  dirtyFields,       \* useState({}), as the set of names mapped to true
  errors,            \* useState({})
  calls,             \* the suspended invocations of handleNext/Back/Skip
  timers,            \* the pending exit timers, in the order they were set
  last,              \* the task that ran last and the callbacks it invoked
  ops,               \* the number of operations the session may still invoke
  written,           \* history: name -> the value handleInputChange last gave it
  trip,              \* history: the step handleNext last left, and formData then
  animatedQuestion   \* the AnimatedQuestion component: its state, its pending
                     \* timeout and the animation it started last

vars == << initialValues, currentStep, formData, isForward, isSubmittingStep,
           isProcessingField, stepHistory, dirtyFields, errors, calls, timers,
           last, ops, written, trip, animatedQuestion >>

CallIds == 1 .. MaxCalls

\* a callback or animation invocation observed from outside the hook
Ev(name, step, data) == [ev |-> name, step |-> step, data |-> data]
Sig(name) == Ev(name, -1, EmptyMap)

\* a slot that holds no invocation
Idle == [pc |-> "idle", kind |-> "none", currentStep |-> 0,
         formData |-> EmptyMap, stepHistory |-> EmptyMap]

\* an invocation suspended at `pc`, with the values its closure captured
Suspended(pc, kind) ==
  [pc |-> pc, kind |-> kind, currentStep |-> currentStep,
   formData |-> formData, stepHistory |-> stepHistory]

\* an operation is invoked by the user of the hook / a suspended one resumes
Invoked == ops > 0 /\ ops' = ops - 1
Resumed == UNCHANGED ops

InFlight == {c \in CallIds : calls[c].pc # "idle"}
Free == {c \in CallIds : calls[c].pc = "idle"}
FreeSlot == CHOOSE c \in Free : \A d \in Free : c <= d

(***************************************************************************)
(* The re-render after a task and the effects it runs: the onStepChange    *)
(* effect and the initialValues merge when currentStep changed, then the   *)
(* error recomputation.  The arguments are the state the task's setState   *)
(* calls produce.                                                          *)
(***************************************************************************)
MergeRuns(cs) == cs # currentStep /\ DOMAIN initialValues # {}

EffectFormData(cs, fd) ==
  IF MergeRuns(cs) THEN Merge(fd, initialValues) ELSE fd

EffectStepHistory(cs, hist) ==
  IF MergeRuns(cs)
    THEN Put(hist, cs, Merge(IF Has(hist, cs) THEN hist[cs] ELSE EmptyMap,
                             initialValues))
    ELSE hist

\* the effect declared without dependencies: it runs after every render
EffectStepChange_EveryRender(cs) == << Ev("onStepChange", cs, EmptyMap) >>

\* useEffect(() => { onStepChange?.(currentStep) }, [currentStep, onStepChange])
\* with the same onStepChange function on every render
EffectStepChange(cs) ==
  IF cs # currentStep THEN << Ev("onStepChange", cs, EmptyMap) >> ELSE <<>>

Render(cs, fd, hist, dirty, errs, op, kind, out) ==
  /\ currentStep' = cs
  /\ formData' = EffectFormData(cs, fd)
  /\ stepHistory' = EffectStepHistory(cs, hist)
  /\ dirtyFields' = dirty
  /\ errors' = ErrorsEffect(cs, EffectFormData(cs, fd), dirty, errs)
  /\ last' = [op |-> op, kind |-> kind, out |-> out \o EffectStepChange(cs)]
  /\ UNCHANGED initialValues

NoTrip == [from |-> -1, snap |-> EmptyMap]

\* the animation presets, and the one used when the prop is not given
ANIMATION_PRESETS ==
  { "fade", "slideUp", "slideLeft", "slideRight", "scale", "fadeSlideUp",
    "fadeScale" }

DEFAULT_ANIMATION_PRESET == "fadeSlideUp"

\* the presets that have a translateX or translateY shared value
Directional == { "slideUp", "slideLeft", "slideRight", "fadeSlideUp" }

\* the offset at which an exit animation ends
HiddenOffset(preset) ==
  CASE preset = "slideUp" -> 40
    [] preset \in { "slideLeft", "slideRight" } -> 100
    [] preset = "fadeSlideUp" -> 20
    [] OTHER -> 0

\* initialize(isForward): the argument of useSharedValue for the offset;
\* presets without an offset are given the offset 0
initialize(preset, forward) ==
  CASE preset \in { "slideUp", "slideLeft", "fadeSlideUp" } ->
         IF forward THEN HiddenOffset(preset) ELSE -HiddenOffset(preset)
    [] preset = "slideRight" ->
         IF forward THEN -HiddenOffset(preset) ELSE HiddenOffset(preset)
    [] OTHER -> 0

\* useSharedValue(initial) on a render after the first: the shared value made
\* by the first render is returned and the argument is ignored
SharedValue(preset, forward, current) == current

\* exit(values): the target of the offset, chosen by the sign of the offset
\* at the time of the call
exit(preset, offset) ==
  IF preset \in Directional
    THEN IF offset > 0 THEN HiddenOffset(preset) ELSE -HiddenOffset(preset)
    ELSE 0

\* AnimatedQuestion after its first render and effect: useState(currentStep),
\* useState(children), the shared values of initialize(isForward), and
\* enter(values) called since prevStep = currentStep.  The content of a step
\* is named by the index of the step.  `offset` is where the offset rests,
\* where it started from while entering, and where it goes to while exiting;
\* `seen` records the offsets at which the transitions so far have started the
\* entering content and to which they have first sent the exiting content.
Mounted(cs, preset) ==
  [prevStep |-> cs, visibleContent |-> cs, timeout |-> FALSE,
   phase |-> "entering", preset |-> preset,
   offset |-> initialize(preset, TRUE), seen |-> {}]

\* an entry of `seen`
Started(what, forward, offset) ==
  [what |-> what, forward |-> forward, offset |-> offset]

InitHook(n) ==
  /\ initialValues \in InitialValueMaps
  /\ currentStep \in InitialSteps
  /\ formData = initialValues
  /\ isForward = TRUE
  /\ isSubmittingStep = FALSE
  /\ isProcessingField = FALSE
  /\ stepHistory = [i \in {currentStep} |-> initialValues]
  /\ dirtyFields = {}
  /\ errors = EmptyMap
  /\ calls = [c \in CallIds |-> Idle]
  /\ timers = <<>>
  /\ last = [op |-> "mount", kind |-> "none",
             out |-> << Ev("onStepChange", currentStep, EmptyMap) >>]
  /\ ops = n
  /\ written = EmptyMap
  /\ trip = NoTrip

InitWith(n) ==
  /\ InitHook(n)
  /\ animatedQuestion = Mounted(currentStep, DEFAULT_ANIMATION_PRESET)

Init == InitWith(MaxOps)

(***************************************************************************)
(* handleNext, handleSkip and handleBack up to their first await.          *)
(* `gate` tells whether the gate option (onBeforeNext / onBeforeBack) is   *)
(* supplied in the render the handler comes from.                          *)
(***************************************************************************)
\* setIsForward(..); fadeOut(); await new Promise(setTimeout(.., fadeOut))
StartExit(c, kind, forward) ==
  /\ isForward' = forward
  /\ calls' = [calls EXCEPT ![c] = [@ EXCEPT !.pc = "timer", !.kind = kind]]
  /\ timers' = Append(timers, c)

\* the direction set before the gate is awaited instead of after it
StartGate_Eager(c, kind) ==
  /\ calls' = [calls EXCEPT ![c] = Suspended("gate", kind)]
  /\ isForward' = (kind # "back")
  /\ UNCHANGED timers

\* await onBeforeNext(currentStep, formData) / await onBeforeBack(currentStep)
StartGate(c, kind) ==
  /\ calls' = [calls EXCEPT ![c] = Suspended("gate", kind)]
  /\ UNCHANGED << isForward, timers >>

Begin(c, kind, forward, gate) ==
  IF gate
    THEN StartGate(c, kind)
    ELSE /\ isForward' = forward
         /\ calls' = [calls EXCEPT ![c] = Suspended("timer", kind)]
         /\ timers' = Append(timers, c)

\* the handler sets the exit timer without calling fadeOut()
BeginOut_NoFade(kind, gate) ==
  IF gate
    THEN << Ev(IF kind = "back" THEN "onBeforeBack" ELSE "onBeforeNext",
               currentStep, IF kind = "back" THEN EmptyMap ELSE formData) >>
    ELSE <<>>

BeginOut(kind, gate) ==
  IF gate
    THEN << Ev(IF kind = "back" THEN "onBeforeBack" ELSE "onBeforeNext",
               currentStep, IF kind = "back" THEN EmptyMap ELSE formData) >>
    ELSE << Sig("fadeOut") >>

handleNext(gate) ==
  LET ok == validateStepResult(currentStep, formData)
      dirty == validateStepDirty(currentStep, dirtyFields)
      errs == validateStepErrors(currentStep, formData)
  IN  /\ Invoked
      /\ ok => Free # {}
      /\ IF ok
           THEN Begin(FreeSlot, "next", TRUE, gate)
           ELSE UNCHANGED << isForward, calls, timers >>
      /\ Render(currentStep, formData, stepHistory, dirty, errs, "handleNext",
                "next", IF ok THEN BeginOut("next", gate) ELSE <<>>)
      /\ UNCHANGED << isSubmittingStep, isProcessingField >>

handleSkip(gate) ==
  /\ Invoked
  /\ Free # {}
  /\ Begin(FreeSlot, "skip", TRUE, gate)
  /\ Render(currentStep, formData, stepHistory, dirtyFields, errors,
            "handleSkip", "skip", BeginOut("skip", gate))
  /\ UNCHANGED << isSubmittingStep, isProcessingField >>

\* handleBack without its test for the first step
handleBackMoves_Always(cs) == TRUE

\* if (currentStep > 0) { .. } else { onExit?.() }
handleBackMoves(cs) == cs > 0

handleBack(gate) ==
  /\ Invoked
  /\ handleBackMoves(currentStep) => Free # {}
  /\ IF handleBackMoves(currentStep)
       THEN Begin(FreeSlot, "back", FALSE, gate)
       ELSE UNCHANGED << isForward, calls, timers >>
  /\ Render(currentStep, formData, stepHistory, dirtyFields, errors,
            "handleBack", "back",
            IF handleBackMoves(currentStep) THEN BeginOut("back", gate)
            ELSE << Sig("onExit") >>)
  /\ UNCHANGED << isSubmittingStep, isProcessingField >>

(***************************************************************************)
(* The gate's promise resolves with `canProceed`.                          *)
(***************************************************************************)
\* the answer of the gate ignored
Proceeds_Always(canProceed) == TRUE

\* if (!canProceed) return;  /  if (!canGoBack) return;
Proceeds(canProceed) == canProceed

GateReturns(c, canProceed) ==
  /\ Resumed
  /\ calls[c].pc = "gate"
  /\ IF Proceeds(canProceed)
       THEN StartExit(c, calls[c].kind, calls[c].kind # "back")
       ELSE /\ calls' = [calls EXCEPT ![c] = Idle]
            /\ UNCHANGED << isForward, timers >>
  /\ Render(currentStep, formData, stepHistory, dirtyFields, errors,
            IF canProceed THEN "gateApproved" ELSE "gateRejected",
            calls[c].kind,
            IF Proceeds(canProceed) THEN << Sig("fadeOut") >> ELSE <<>>)
  /\ UNCHANGED << isSubmittingStep, isProcessingField >>

(***************************************************************************)
(* The exit timer of invocation c fires: the rest of the handler, up to    *)
(* its return or to the await of onCompleted.  k is the closure of the     *)
(* invocation: k.currentStep, k.formData and k.stepHistory are the values  *)
(* of the render the handler was created in.                               *)
(***************************************************************************)
\* currentStep < config.length - 1
NotLast(k) == k.currentStep < Length - 1

\* the target computed from the index of the state when the timer fires
TargetStep_Live(k) ==
  IF k.kind = "back" THEN currentStep - 1 ELSE currentStep + 1

\* const nextStep = currentStep + 1 / const previousStep = currentStep - 1
TargetStep(k) ==
  IF k.kind = "back" THEN k.currentStep - 1 ELSE k.currentStep + 1

\* if (stepHistory[target]) setFormData(stepHistory[target])
\* (handleNext and handleBack; handleSkip leaves formData alone)
RestoredFormData(k) ==
  IF k.kind # "skip" /\ Has(k.stepHistory, TargetStep(k))
    THEN k.stepHistory[TargetStep(k)]
    ELSE formData

\* handleSkip: if (!stepHistory[nextStep])
\*   setStepHistory((prev) => ({...prev, [nextStep]: prev[nextStep] || {}}))
SeededStepHistory(k) ==
  IF k.kind = "skip" /\ ~Has(k.stepHistory, TargetStep(k))
    THEN Put(stepHistory, TargetStep(k),
             IF Has(stepHistory, TargetStep(k))
               THEN stepHistory[TargetStep(k)] ELSE EmptyMap)
    ELSE stepHistory

\* onCompleted called with the history entry of the step instead of formData
CompletedArg_History(k) ==
  IF Has(k.stepHistory, k.currentStep) THEN k.stepHistory[k.currentStep]
  ELSE EmptyMap

\* the argument of onCompleted?.(formData)
CompletedArg(k) == k.formData

Finish(c) ==
  /\ calls' = [calls EXCEPT ![c] = Idle]
  /\ timers' = Tail(timers)

TimerFires(c) ==
  /\ Resumed
  /\ timers # <<>>
  /\ c = Head(timers)
  /\ calls[c].pc = "timer"
  /\ LET k == calls[c]
     IN  IF k.kind = "back" \/ NotLast(k)
           THEN /\ Finish(c)
                /\ Render(TargetStep(k), RestoredFormData(k),
                          SeededStepHistory(k), dirtyFields, errors,
                          "moved", k.kind, << Sig("fadeIn") >>)
                /\ UNCHANGED isSubmittingStep
           ELSE /\ isSubmittingStep' = TRUE
                /\ calls' = [calls EXCEPT ![c] = [@ EXCEPT !.pc = "completing"]]
                /\ timers' = Tail(timers)
                /\ Render(currentStep, formData, stepHistory, dirtyFields,
                          errors, "submit", k.kind,
                          << Ev("onCompleted", k.currentStep, CompletedArg(k)) >>)
  /\ UNCHANGED << isForward, isProcessingField >>

(***************************************************************************)
(* The promise of onCompleted settles: catch, finally, fadeIn().           *)
(***************************************************************************)
\* the flag cleared only when onCompleted returns
SubmittingAfterCompletion_Stuck(raised) == raised

\* finally { setIsSubmittingStep(false) }
SubmittingAfterCompletion(raised) == FALSE

\* catch (error) { console.error(..) }: nothing leaves the handler
CompletionOut(raised) ==
  IF raised THEN << Sig("console.error"), Sig("fadeIn") >>
  ELSE << Sig("fadeIn") >>

CompletionSettles(c, raised) ==
  /\ Resumed
  /\ calls[c].pc = "completing"
  /\ isSubmittingStep' = SubmittingAfterCompletion(raised)
  /\ calls' = [calls EXCEPT ![c] = Idle]
  /\ Render(currentStep, formData, stepHistory, dirtyFields, errors,
            IF raised THEN "completionRaised" ELSE "completionReturned",
            calls[c].kind, CompletionOut(raised))
  /\ UNCHANGED << isForward, isProcessingField, timers >>

(***************************************************************************)
(* The synchronous operations.                                             *)
(***************************************************************************)
\* the entry of the active step records the step's own fields only
handleInputChangeHistory_PerStep(name, value) ==
  Put(stepHistory, currentStep,
      Put(IF Has(stepHistory, currentStep) THEN stepHistory[currentStep]
                                           ELSE EmptyMap, name, value))

\* setStepHistory(prevHistory => ({...prevHistory, [currentStep]: newFormData}))
handleInputChangeHistory(name, value) ==
  Put(stepHistory, currentStep, Put(formData, name, value))

\* uploading is FALSE when the caller omits it
handleInputChange(name, value, uploading) ==
  /\ Invoked
  /\ isProcessingField' = uploading
  /\ Render(currentStep, Put(formData, name, value),
            handleInputChangeHistory(name, value),
            dirtyFields \cup {name}, errors, "handleInputChange", "none", <<>>)
  /\ UNCHANGED << isForward, isSubmittingStep, calls, timers >>

\* goToStep with its upper limit included
goToStepTarget_Inclusive(step) ==
  IF step >= 0 /\ step <= Length THEN step ELSE currentStep

\* goToStep without its range check
goToStepTarget_Unchecked(step) == step

\* if (step >= 0 && step < config.length) setCurrentStep(step)
goToStepTarget(step) ==
  IF step >= 0 /\ step < Length THEN step ELSE currentStep

goToStep(step) ==
  /\ Invoked
  /\ Render(goToStepTarget(step), formData, stepHistory, dirtyFields, errors,
            "goToStep", "none", <<>>)
  /\ UNCHANGED << isForward, isSubmittingStep, isProcessingField, calls,
                  timers >>

\* last.kind records the value validateStep returns
validateStep ==
  /\ Invoked
  /\ Render(currentStep, formData, stepHistory,
            validateStepDirty(currentStep, dirtyFields),
            validateStepErrors(currentStep, formData),
            "validateStep",
            IF validateStepResult(currentStep, formData) THEN "true"
            ELSE "false", <<>>)
  /\ UNCHANGED << isForward, isSubmittingStep, isProcessingField, calls,
                  timers >>

\* isStepValid marking the step's fields dirty, as validateStep does
isStepValidDirty_Marks(i, dirty) ==
  IF NoValidation(i) THEN dirty ELSE StepNames(i)

\* isStepValid calls no setter: dirtyFields after the call
isStepValidDirty(i, dirty) == dirty

\* the component asks isStepValid() (the disabled state of the Continue
\* button); last.kind records the value returned
isStepValidCalled ==
  /\ Invoked
  /\ Render(currentStep, formData, stepHistory,
            isStepValidDirty(currentStep, dirtyFields), errors, "isStepValid",
            IF isStepValid(currentStep, formData) THEN "true" ELSE "false",
            <<>>)
  /\ UNCHANGED << isForward, isSubmittingStep, isProcessingField, calls,
                  timers >>

(***************************************************************************)
(* The specification: every operation may be invoked in every state, also  *)
(* while other invocations are suspended (the hook has no guard).          *)
(***************************************************************************)
StepArgs == -1 .. Length

\* the history variables stand still, and AnimatedQuestion is left out
Keep == UNCHANGED << written, trip, animatedQuestion >>

Next ==
  \/ Keep /\ \E gate \in BOOLEAN : handleNext(gate)
  \/ Keep /\ \E gate \in BOOLEAN : handleSkip(gate)
  \/ Keep /\ \E gate \in BOOLEAN : handleBack(gate)
  \/ Keep /\ \E c \in CallIds, canProceed \in BOOLEAN : GateReturns(c, canProceed)
  \/ Keep /\ \E c \in CallIds : TimerFires(c)
  \/ Keep /\ \E c \in CallIds, raised \in BOOLEAN : CompletionSettles(c, raised)
  \/ Keep /\ \E name \in Names, value \in Values, uploading \in BOOLEAN :
               handleInputChange(name, value, uploading)
  \/ Keep /\ \E step \in StepArgs : goToStep(step)
  \/ Keep /\ validateStep

Spec == Init /\ [][Next]_vars

(***************************************************************************)
(* The same operations when the user of the hook waits for an operation    *)
(* to finish before invoking the next one.                                 *)
(***************************************************************************)
Quiet == InFlight = {}

InitSeq == InitWith(MaxSeqOps)

NextSeq ==
  \/ Keep /\ Quiet /\ \E gate \in BOOLEAN : handleNext(gate)
  \/ Keep /\ Quiet /\ \E gate \in BOOLEAN : handleSkip(gate)
  \/ Keep /\ Quiet /\ \E gate \in BOOLEAN : handleBack(gate)
  \/ Keep /\ \E c \in CallIds, canProceed \in BOOLEAN : GateReturns(c, canProceed)
  \/ Keep /\ \E c \in CallIds : TimerFires(c)
  \/ Keep /\ \E c \in CallIds, raised \in BOOLEAN : CompletionSettles(c, raised)
  \/ Keep /\ Quiet /\ \E name \in Names, value \in Values, uploading \in BOOLEAN :
                        handleInputChange(name, value, uploading)
  \/ Keep /\ Quiet /\ \E step \in StepArgs : goToStep(step)
  \/ Keep /\ Quiet /\ validateStep

SeqSpec == InitSeq /\ [][NextSeq]_vars

(***************************************************************************)
(* Sessions of handleInputChange, handleNext, handleBack and handleSkip,   *)
(* one at a time, with the history variables kept: `written` follows       *)
(* handleInputChange, `trip` follows the index.                            *)
(***************************************************************************)
TripAfter ==
  IF last'.op = "moved" /\ last'.kind = "next"
    THEN [from |-> currentStep, snap |-> formData]
  ELSE IF currentStep' # currentStep THEN NoTrip
  ELSE trip

NextHist ==
  \/ Keep /\ Quiet /\ \E gate \in BOOLEAN : handleNext(gate)
  \/ Keep /\ Quiet /\ \E gate \in BOOLEAN : handleSkip(gate)
  \/ Keep /\ Quiet /\ \E gate \in BOOLEAN : handleBack(gate)
  \/ Keep /\ \E c \in CallIds, canProceed \in BOOLEAN : GateReturns(c, canProceed)
  \/ /\ \E c \in CallIds : TimerFires(c)
     /\ trip' = TripAfter
     /\ UNCHANGED << written, animatedQuestion >>
  \/ Keep /\ \E c \in CallIds, raised \in BOOLEAN : CompletionSettles(c, raised)
  \/ /\ Quiet
     /\ \E name \in Names, value \in Values, uploading \in BOOLEAN :
          /\ handleInputChange(name, value, uploading)
          /\ written' = Put(written, name, value)
     /\ UNCHANGED << trip, animatedQuestion >>

HistSpec == InitSeq /\ [][NextHist]_vars

(***************************************************************************)
(* The overlapping sessions in which the component also asks isStepValid,  *)
(* in any state.                                                           *)
(***************************************************************************)
InitView == InitWith(MaxViewOps)

NextView == Next \/ (Keep /\ isStepValidCalled)

ViewSpec == InitView /\ [][NextView]_vars

(***************************************************************************)
(* The same sessions under the assumption that every promise of            *)
(* onCompleted settles: a pending call of onCompleted eventually returns   *)
(* or raises.                                                              *)
(***************************************************************************)
Settles(c) == Keep /\ \E raised \in BOOLEAN : CompletionSettles(c, raised)

FairSpec == ViewSpec /\ \A c \in CallIds : WF_vars(Settles(c))

(***************************************************************************)
(* The hook together with AnimatedQuestion, which the component renders    *)
(* with the props currentStep and children (the questions of the active    *)
(* step), one operation at a time.  The effect of AnimatedQuestion         *)
(* depends on `values` and `children`, which are new objects on every      *)
(* render, so it is cleaned up and run again after every render.           *)
(***************************************************************************)
\* children shown directly, without the visibleContent state
DisplayedWhileExiting_Children(a, cs) == cs

\* {visibleContent}: the effect does not call setVisibleContent while
\* prevStep !== currentStep
DisplayedWhileExiting(a, cs) == a.visibleContent

\* the timeout cleared by the cleanup is set again only by the run of the
\* effect that starts the exit
ExitTimeout_Once(a) == a.phase # "exiting"

\* const timeout = setTimeout(..) in every run of the effect that finds
\* prevStep !== currentStep
ExitTimeout(a) == TRUE

\* the effect after a render with currentStep = cs: clearTimeout by the
\* cleanup, then exit(values) and a new timeout when the step has changed,
\* setVisibleContent(children) and enter(values) otherwise
AnimatedQuestionEffect(a, cs, forward) ==
  LET current == SharedValue(a.preset, forward, a.offset)
  IN IF a.prevStep # cs
       THEN [a EXCEPT !.visibleContent = DisplayedWhileExiting(a, cs),
                      !.timeout = ExitTimeout(a), !.phase = "exiting",
                      !.offset = exit(a.preset, current),
                      !.seen = IF a.phase = "exiting" THEN @
                               ELSE @ \cup { Started("exit", forward,
                                                     exit(a.preset, current)) }]
       ELSE [a EXCEPT !.visibleContent = cs, !.timeout = FALSE,
                      !.phase = "entering", !.offset = current]

\* the useState cells of the hook: the component renders again when a task
\* has changed one of them
Rendered ==
  << currentStep, formData, isForward, isSubmittingStep, isProcessingField,
     stepHistory, dirtyFields, errors >>

\* a task of the hook, and the render of AnimatedQuestion when the task has
\* changed the state of the hook
Shown ==
  /\ UNCHANGED << written, trip >>
  /\ animatedQuestion' =
       IF Rendered' # Rendered
         THEN AnimatedQuestionEffect(animatedQuestion, currentStep',
                                     isForward')
         ELSE animatedQuestion

\* the timeout set by the effect fires after ANIMATION_DURATIONS.fadeOut:
\* setVisibleContent(children); setPrevStep(currentStep); enter(values), which
\* moves the offset from where exit has left it to 0
AnimatedQuestionTimeout ==
  /\ animatedQuestion.timeout
  /\ animatedQuestion' =
       [animatedQuestion EXCEPT
          !.prevStep = currentStep, !.visibleContent = currentStep,
          !.timeout = FALSE, !.phase = "entering",
          !.seen = @ \cup { Started("enter", isForward,
                                    animatedQuestion.offset) }]
  /\ UNCHANGED << initialValues, currentStep, formData, isForward,
                  isSubmittingStep, isProcessingField, stepHistory,
                  dirtyFields, errors, calls, timers, last, ops, written,
                  trip >>

\* the animation started by enter(values) runs to its end: withSpring(0) of
\* the offset, which SPRING_CONFIG damps without overshoot
EnterCompletes ==
  /\ animatedQuestion.phase = "entering"
  /\ animatedQuestion' =
       [animatedQuestion EXCEPT !.phase = "idle", !.offset = 0]
  /\ UNCHANGED << initialValues, currentStep, formData, isForward,
                  isSubmittingStep, isProcessingField, stepHistory,
                  dirtyFields, errors, calls, timers, last, ops, written,
                  trip >>

InitAnim ==
  /\ InitHook(MaxAnimOps)
  /\ \E preset \in ANIMATION_PRESETS :
       animatedQuestion = Mounted(currentStep, preset)

NextAnim ==
  \/ Quiet /\ (\E gate \in BOOLEAN : handleNext(gate)) /\ Shown
  \/ Quiet /\ (\E gate \in BOOLEAN : handleSkip(gate)) /\ Shown
  \/ Quiet /\ (\E gate \in BOOLEAN : handleBack(gate)) /\ Shown
  \/ (\E c \in CallIds, canProceed \in BOOLEAN : GateReturns(c, canProceed))
       /\ Shown
  \/ (\E c \in CallIds : TimerFires(c)) /\ Shown
  \/ (\E c \in CallIds, raised \in BOOLEAN : CompletionSettles(c, raised))
       /\ Shown
  \/ Quiet /\ (\E name \in Names, value \in Values, uploading \in BOOLEAN :
                  handleInputChange(name, value, uploading)) /\ Shown
  \/ Quiet /\ (\E step \in StepArgs : goToStep(step)) /\ Shown
  \/ AnimatedQuestionTimeout
  \/ EnterCompletes

AnimSpec == InitAnim /\ [][NextAnim]_vars

(***************************************************************************)
(* AnimatedQuestion with the default preset, under the assumptions that a  *)
(* timeout that stays set fires and that an animation started by enter     *)
(* runs to its end.  The operations of the hook are not assumed to happen; *)
(* the session invokes finitely many of them.                              *)
(***************************************************************************)
AnimFairSpec ==
  /\ InitWith(MaxAnimOps)
  /\ [][NextAnim]_vars
  /\ WF_vars(AnimatedQuestionTimeout)
  /\ WF_vars(EnterCompletes)

(***************************************************************************)
(* C1.  The committed step index stays within 0 .. length-1 after any      *)
(* sequence and interleaving of handleNext, handleBack, handleSkip,        *)
(* handleInputChange and goToStep(i) for any integer i, whatever the gates *)
(* answer and whenever the timers fire.                                    *)
(***************************************************************************)
C1_IndexInRange == currentStep \in Steps

\* a transition committed the last index while another invocation is suspended
C1_Witness ==
  /\ last.op = "moved"
  /\ currentStep = Length - 1
  /\ InFlight # {}

(***************************************************************************)
(* C2.  When the schema of the active step rejects formData, handleNext    *)
(* changes neither currentStep, formData nor stepHistory, suspends at no   *)
(* gate and no exit timer, invokes no callback, and leaves a message in    *)
(* errors for every failing field of the step.                             *)
(***************************************************************************)
FailingFields(i, fd) == {Issues(i, fd)[k].field : k \in 1 .. Len(Issues(i, fd))}

C2_BlockedAdvance ==
  [][(last'.op = "handleNext" /\ ~SchemaAccepts(currentStep, formData)) =>
       /\ UNCHANGED << currentStep, formData, stepHistory, calls, timers,
                       isForward, isSubmittingStep >>
       /\ last'.out = <<>>
       /\ FailingFields(currentStep, formData) \subseteq DOMAIN errors'
       /\ FailingFields(currentStep, formData) # {}]_vars

\* handleNext has just been blocked on the step of "nick"
C2_Witness ==
  /\ last.op = "handleNext"
  /\ last.out = <<>>
  /\ ~SchemaAccepts(currentStep, formData)
  /\ "nick" \in DOMAIN errors

(***************************************************************************)
(* C3.  One handleNext on the last step, with validation passing and the   *)
(* gate absent or approving, calls onCompleted exactly once, with formData *)
(* as it is in the hook, sets isSubmittingStep before the call and clears  *)
(* it after the call settles, and leaves currentStep alone.                *)
(***************************************************************************)
Completions(out) == {k \in 1 .. Len(out) : out[k].ev = "onCompleted"}

C3_TerminalAdvance ==
  [][/\ \A c \in CallIds :
          (/\ calls[c].pc = "timer" /\ calls[c].kind = "next"
           /\ calls[c].currentStep = Length - 1
           /\ calls'[c].pc # "timer") =>
            (calls'[c].pc = "completing" /\ last'.op = "submit")
     /\ (last'.op = "submit" /\ last'.kind = "next") =>
          /\ last'.out = << Ev("onCompleted", currentStep, formData) >>
          /\ SchemaAccepts(currentStep, formData)
          /\ ~isSubmittingStep /\ isSubmittingStep'
          /\ currentStep = Length - 1 /\ currentStep' = currentStep
     /\ (/\ last'.op \in {"completionReturned", "completionRaised"}
         /\ last'.kind = "next") =>
          /\ isSubmittingStep /\ ~isSubmittingStep'
          /\ Completions(last'.out) = {}
          /\ InFlight' = {}
          /\ currentStep' = currentStep]_vars

\* onCompleted has returned to a handleNext that submitted a non-empty form
C3_Witness ==
  /\ last.op = "completionReturned"
  /\ last.kind = "next"
  /\ "email" \in DOMAIN formData

(***************************************************************************)
(* C4.  The map onCompleted receives holds, for every name that            *)
(* handleInputChange was ever called with, the value of the latest call.   *)
(***************************************************************************)
C4_CompleteArgument ==
  last.op = "submit" =>
    \A n \in DOMAIN written :
      /\ Has(last.out[1].data, n)
      /\ last.out[1].data[n] = written[n]

(***************************************************************************)
(* C5.  Round trip: after handleNext moved the index from i to i+1 and     *)
(* handleBack moved it back to i, formData is what it was when step i was  *)
(* left, whatever handleInputChange did on either step.                    *)
(***************************************************************************)
C5_RoundTrip ==
  [][(last'.op = "moved" /\ last'.kind = "back" /\ trip.from = currentStep') =>
       formData' = trip.snap]_vars

(***************************************************************************)
(* C6.  handleBack at index i > 0, its gate absent or approving, completes *)
(* whether or not the step validates: the index becomes i-1, the direction *)
(* backward, and formData becomes stepHistory[i-1] when that entry exists  *)
(* and is left alone when it does not.                                     *)
(***************************************************************************)
C6_Retreat ==
  [][/\ \A c \in CallIds :
          (/\ calls[c].pc = "timer" /\ calls[c].kind = "back"
           /\ calls'[c].pc # "timer") =>
            (calls'[c].pc = "idle" /\ last'.op = "moved")
     /\ (last'.op = "moved" /\ last'.kind = "back") =>
          /\ currentStep > 0
          /\ currentStep' = currentStep - 1
          /\ ~isForward'
          /\ formData' = IF Has(stepHistory, currentStep - 1)
                           THEN stepHistory[currentStep - 1]
                           ELSE formData]_vars

(***************************************************************************)
(* C7.  When validation passes and onBeforeNext answers false, handleNext  *)
(* changes no state at all: currentStep, formData, stepHistory,            *)
(* dirtyFields, errors, isForward and isSubmittingStep are as before the   *)
(* call.  As amended: all of these but dirtyFields, which the validation   *)
(* of a step with a validator sets to the names of that step.              *)
(***************************************************************************)
GatedStart(op) ==
  /\ last'.op = op
  /\ last'.out # <<>>
  /\ last'.out[1].ev \in {"onBeforeNext", "onBeforeBack"}

C7_Original ==
  [][/\ GatedStart("handleNext") =>
          UNCHANGED << currentStep, formData, stepHistory, dirtyFields,
                       errors, isForward, isSubmittingStep >>
     /\ (last'.op = "gateRejected" /\ last'.kind = "next") =>
          UNCHANGED << currentStep, formData, stepHistory, dirtyFields,
                       errors, isForward, isSubmittingStep >>]_vars

C7_GateRejectsAdvance ==
  [][/\ GatedStart("handleNext") =>
          /\ UNCHANGED << currentStep, formData, stepHistory, errors,
                          isForward, isSubmittingStep, timers >>
          /\ dirtyFields' = IF NoValidation(currentStep) THEN dirtyFields
                            ELSE StepNames(currentStep)
     /\ (last'.op = "gateRejected" /\ last'.kind = "next") =>
          /\ UNCHANGED << currentStep, formData, stepHistory, dirtyFields,
                          errors, isForward, isSubmittingStep, timers >>
          /\ last'.out = <<>>]_vars

\* the gate has rejected a handleNext on a step with a validator
C7_Witness ==
  /\ last.op = "gateRejected"
  /\ last.kind = "next"
  /\ ~NoValidation(currentStep)
  /\ dirtyFields = StepNames(currentStep)

(***************************************************************************)
(* C8.  When onBeforeBack (handleBack at index > 0) or onBeforeNext        *)
(* (handleSkip) answers false, nothing has been changed: currentStep,      *)
(* formData, stepHistory, dirtyFields, errors and isForward are as before, *)
(* no exit timer is set, and neither onCompleted nor onStepChange is       *)
(* called.                                                                 *)
(***************************************************************************)
C8_GateCancels ==
  [][/\ (GatedStart("handleBack") \/ GatedStart("handleSkip")) =>
          /\ UNCHANGED << currentStep, formData, stepHistory, dirtyFields,
                          errors, isForward, isSubmittingStep, timers >>
          /\ Len(last'.out) = 1
     /\ (last'.op = "gateRejected" /\ last'.kind \in {"back", "skip"}) =>
          /\ UNCHANGED << currentStep, formData, stepHistory, dirtyFields,
                          errors, isForward, isSubmittingStep, timers >>
          /\ last'.out = <<>>
          /\ Cardinality(InFlight') = Cardinality(InFlight) - 1]_vars

\* onBeforeBack has rejected a handleBack on a step with touched fields
C8_Witness ==
  /\ last.op = "gateRejected"
  /\ last.kind = "back"
  /\ currentStep > 0
  /\ dirtyFields # {}

(***************************************************************************)
(* C9.  At most one transition is in flight: while one invocation of       *)
(* handleNext, handleBack or handleSkip is suspended, a second one does    *)
(* not begin a transition of its own.                                      *)
(***************************************************************************)
C9_OneTransition == Cardinality(InFlight) <= 1

C11_SubmittingClears == isSubmittingStep ~> ~isSubmittingStep

\* onCompleted has raised, with a second call of it still pending, and the
\* flag is down
C11_Witness ==
  /\ last.op = "completionRaised"
  /\ ~isSubmittingStep
  /\ \E c \in CallIds : calls[c].pc = "completing"

(***************************************************************************)
(* C12.  handleInputChange(name, value, uploading) at step i leaves        *)
(* formData equal to the old formData with name mapped to value and every  *)
(* other key as it was, adds name to dirtyFields, makes stepHistory[i]     *)
(* exactly the new formData, leaves stepHistory[j] alone for j # i, leaves *)
(* currentStep and isForward alone, and sets isProcessingField to          *)
(* uploading.                                                              *)
(***************************************************************************)
C12_SetField ==
  [][\A n \in Names, v \in Values, u \in BOOLEAN :
       handleInputChange(n, v, u) =>
         /\ DOMAIN formData' = DOMAIN formData \cup {n}
         /\ formData'[n] = v
         /\ \A k \in DOMAIN formData \ {n} : formData'[k] = formData[k]
         /\ dirtyFields' = dirtyFields \cup {n}
         /\ Has(stepHistory', currentStep)
         /\ stepHistory'[currentStep] = formData'
         /\ DOMAIN stepHistory' = DOMAIN stepHistory \cup {currentStep}
         /\ \A j \in DOMAIN stepHistory \ {currentStep} :
               stepHistory'[j] = stepHistory[j]
         /\ currentStep' = currentStep
         /\ isForward' = isForward
         /\ isProcessingField' = u]_vars

\* a field was set past the first step, with the flag raised, while formData
\* holds another key and stepHistory another entry
C12_Witness ==
  /\ last.op = "handleInputChange"
  /\ isProcessingField
  /\ currentStep > 0
  /\ Cardinality(DOMAIN formData) >= 2
  /\ Cardinality(DOMAIN stepHistory) >= 2
  /\ stepHistory[currentStep] = formData

(***************************************************************************)
(* C13.  Every name with an entry in errors is in dirtyFields, so a        *)
(* failing field that was never touched on a step that was never validated *)
(* has no entry; and when handleInputChange gives a field of the active    *)
(* step a value its validator rejects, errors has an entry for it.         *)
(***************************************************************************)
C13_ErrorsAreDirty ==
  /\ [](DOMAIN errors \subseteq dirtyFields)
  /\ [][\A n \in Names, v \in Values, u \in BOOLEAN :
          (/\ handleInputChange(n, v, u)
           /\ n \in FailingFields(currentStep, formData')) =>
             n \in DOMAIN errors']_vars

\* on a validated step whose field fails and was never touched errors is
\* empty although another field is dirty
C13_Witness ==
  /\ ~NoValidation(currentStep)
  /\ FailingFields(currentStep, formData) # {}
  /\ FailingFields(currentStep, formData) \cap dirtyFields = {}
  /\ dirtyFields # {}
  /\ errors = EmptyMap

(***************************************************************************)
(* C14.  Whenever dirtyFields is non-empty and the active step has a       *)
(* validator, errors holds exactly the names that fail the step's schema   *)
(* against formData and are dirty: an entry goes as soon as                *)
(* handleInputChange makes its field valid, and no entry for a name        *)
(* outside the active step outlives a step change.                         *)
(***************************************************************************)
C14_ErrorsFollowState ==
  /\ (dirtyFields # {} /\ ~NoValidation(currentStep)) =>
        DOMAIN errors = FailingFields(currentStep, formData) \cap dirtyFields
  /\ DOMAIN errors \subseteq StepNames(currentStep)

\* the field of the active step is dirty and valid again, with no entry,
\* right after handleInputChange
C14_Witness ==
  /\ last.op = "handleInputChange"
  /\ ~NoValidation(currentStep)
  /\ StepNames(currentStep) \subseteq dirtyFields
  /\ FailingFields(currentStep, formData) = {}
  /\ errors = EmptyMap
  /\ currentStep = 2

(***************************************************************************)
(* C15.  On a step that is not the last, whose questions are all skippable *)
(* and whose schema rejects formData, handleSkip with no gate or an        *)
(* approving gate moves currentStep forward by exactly one, while          *)
(* handleNext from the same state leaves currentStep where it is.          *)
(***************************************************************************)
SkipOnly(i, fd) ==
  i < Length - 1 /\ AllSkippable(i) /\ ~SchemaAccepts(i, fd)

C15_SkipBypasses ==
  [][SkipOnly(currentStep, formData) =>
       /\ last'.op = "handleSkip" =>
            /\ currentStep' = currentStep
            /\ \E c \in CallIds :
                 /\ calls'[c].kind = "skip"
                 /\ calls'[c].pc \in {"gate", "timer"}
       /\ \A c \in CallIds :
            (calls[c].kind = "skip" /\ calls'[c] # calls[c]) =>
               \/ calls[c].pc = "gate" /\ last'.op = "gateRejected"
               \/ /\ calls[c].pc = "gate"
                  /\ last'.op = "gateApproved"
                  /\ calls'[c].pc = "timer"
                  /\ currentStep' = currentStep
               \/ /\ calls[c].pc = "timer"
                  /\ last'.op = "moved"
                  /\ currentStep' = currentStep + 1
       /\ last'.op = "handleNext" =>
            /\ currentStep' = currentStep
            /\ InFlight' = InFlight]_vars

\* handleSkip has moved off the skippable step with its field still failing
C15_Witness ==
  /\ last.op = "moved"
  /\ last.kind = "skip"
  /\ currentStep = 2
  /\ SkipOnly(1, formData)

(***************************************************************************)
(* C16.  handleSkip proceeds as handleNext does once validation has        *)
(* passed: from a state in which validateStep accepts, and under the same  *)
(* answer of the gate, the two leave the same currentStep, formData,       *)
(* stepHistory and isForward, and call onCompleted alike on the last step. *)
(***************************************************************************)
\* the invocation k, had it been one of handleNext
AsNext(k) == [k EXCEPT !.kind = "next"]

C16_SkipAsAdvance ==
  [][\A c \in CallIds :
       (/\ calls[c].kind = "skip"
        /\ calls[c].pc = "timer"
        /\ calls'[c].pc # "timer"
        /\ validateStepResult(currentStep, formData)) =>
          LET n == AsNext(calls[c])
          IN  /\ isForward' = TRUE
              /\ IF NotLast(n)
                   THEN /\ currentStep' = TargetStep(n)
                        /\ formData' =
                             EffectFormData(TargetStep(n), RestoredFormData(n))
                        /\ stepHistory' =
                             EffectStepHistory(TargetStep(n),
                                               SeededStepHistory(n))
                   ELSE /\ last'.out = << Ev("onCompleted", n.currentStep,
                                             CompletedArg(n)) >>
                        /\ UNCHANGED << currentStep, formData, stepHistory >>]_vars

(***************************************************************************)
(* C17.  formData is additive: a name that has a value keeps an entry in   *)
(* every later state, and its value changes only through handleInputChange *)
(* on that name or through a merge of initialValues; handleNext,           *)
(* handleBack, handleSkip and goToStep remove no key and change no value.  *)
(***************************************************************************)
C17_Additive ==
  [][\A n \in DOMAIN formData :
       /\ Has(formData', n)
       /\ \/ formData'[n] = formData[n]
          \/ \E v \in Values, u \in BOOLEAN : handleInputChange(n, v, u)
          \/ Has(initialValues, n) /\ formData'[n] = initialValues[n]]_vars

C19_StepSatisfied ==
  [][last'.op = "isStepValid" =>
       ((last'.kind = "true") <=>
          \/ \A k \in 1 .. Len(Questions(currentStep)) :
               ~Questions(currentStep)[k].validated
          \/ \A k \in 1 .. Len(Questions(currentStep)) :
               Questions(currentStep)[k].skippable
          \/ FailingFields(currentStep, formData) = {})]_vars

\* isStepValid has returned true on a step of skippable questions whose
\* schema rejects formData
C19_Witness ==
  /\ last.op = "isStepValid"
  /\ last.kind = "true"
  /\ ~NoValidation(currentStep)
  /\ FailingFields(currentStep, formData) # {}

(***************************************************************************)
(* C20.  isStepValid changes no state: a call leaves dirtyFields, errors,  *)
(* formData, stepHistory and currentStep as they were, and a call that     *)
(* follows another with nothing in between returns the same value.         *)
(***************************************************************************)
C20_StepSatisfiedPure ==
  [][last'.op = "isStepValid" =>
       /\ UNCHANGED << dirtyFields, errors, formData, stepHistory,
                       currentStep >>
       /\ last.op = "isStepValid" => last'.kind = last.kind]_vars

\* isStepValid has returned false on the last step, with nothing dirty and
\* no errors
C20_Witness ==
  /\ last.op = "isStepValid"
  /\ last.kind = "false"
  /\ currentStep = 2
  /\ dirtyFields = {}
  /\ errors = EmptyMap

(***************************************************************************)
(* C21.  For every i with 0 <= i < Length, goToStep(i) makes currentStep i *)
(* so that currentStepData read afterwards is the i-th step of config; for *)
(* every other i, goToStep(i) leaves currentStep as it is.                 *)
(***************************************************************************)
C21_JumpTo ==
  [][\A i \in StepArgs :
       goToStep(i) =>
         IF 0 <= i /\ i < Length
           THEN currentStep' = i /\ Step(currentStep') = config[i + 1]
           ELSE currentStep' = currentStep]_vars

\* goToStep has moved to the last step from the first one
C21_Witness ==
  /\ last.op = "goToStep"
  /\ currentStep = Length - 1
  /\ Len(last.out) = 1
  /\ ops = MaxViewOps - 1

(***************************************************************************)
(* C22.  goToStep restores nothing and animates nothing: formData,         *)
(* stepHistory, dirtyFields and isForward are after the call what they     *)
(* were before it, for every initialValues, empty or not, and every i.     *)
(***************************************************************************)
C22_JumpToFrame ==
  [][\A i \in StepArgs :
       goToStep(i) =>
         UNCHANGED << formData, stepHistory, dirtyFields, isForward >>]_vars

(***************************************************************************)
(* C23.  handleBack on step 0 calls onExit exactly once and changes        *)
(* nothing: currentStep, formData, stepHistory, dirtyFields, errors and    *)
(* isForward stay, no fade-out starts, and onBeforeBack is not asked.      *)
(***************************************************************************)
C23_ExitIntent ==
  [][(last'.op = "handleBack" /\ currentStep = 0) =>
       /\ last'.out = << Sig("onExit") >>
       /\ UNCHANGED << currentStep, formData, stepHistory, dirtyFields,
                       errors, isForward, calls, timers >>]_vars

\* onExit was signalled on step 0 with a field dirty
C23_Witness ==
  /\ last.op = "handleBack"
  /\ last.out = << Sig("onExit") >>
  /\ currentStep = 0
  /\ dirtyFields # {}

(***************************************************************************)
(* C24.  Validation of a step against formData yields either "satisfied"   *)
(* or a map with exactly one entry for each failing validated field, the   *)
(* entry being the message of the first failing check of that field; a     *)
(* field without a validator never appears in the map, and a step without  *)
(* validators is satisfied for every formData.                             *)
(***************************************************************************)
C24_FirstFailing ==
  [][last'.op = "validateStep" =>
       /\ (last'.kind = "true") <=> (errors' = EmptyMap)
       /\ DOMAIN errors' \subseteq StepNames(currentStep)
       /\ \A k \in QIdx(currentStep) :
            LET q == Questions(currentStep)[k]
            IN  IF q.validated /\ FieldIssues(q, formData) # <<>>
                  THEN /\ Has(errors', q.name)
                       /\ errors'[q.name] = FieldIssues(q, formData)[1].message
                  ELSE ~Has(errors', q.name)
       /\ NoValidation(currentStep) => last'.kind = "true"]_vars

(***************************************************************************)
(* C25.  onStepChange is called with the new index each time the committed *)
(* currentStep changes, be it through handleNext, handleBack, handleSkip   *)
(* or goToStep, and is not called by a transition that validation blocks,  *)
(* that a gate cancels, or that submits on the last step.                  *)
(***************************************************************************)
StepChanges(out) == SelectSeq(out, LAMBDA e : e.ev = "onStepChange")

C26_UnregisteredSwallowed ==
  LET v == RenderedQuestions(currentStep)
  IN  /\ ~v.thrown
      /\ Len(v.elements) = Len(Questions(currentStep))
      /\ \A k \in QIdx(currentStep) :
           v.elements[k] = IF Questions(currentStep)[k].type \in components
                             THEN Questions(currentStep)[k].name
                             ELSE "none"

(***************************************************************************)
(* C27.  For handleNext and handleSkip off a step that is not the last,    *)
(* and handleBack off a step above 0, once past the gate: currentStep is   *)
(* set only after fadeOut was started and the exit timer has fired, fadeIn *)
(* is started only with the step already set, and currentStep keeps its    *)
(* old value while the gate is awaited and while the exit timer runs.      *)
(***************************************************************************)
Called(name, out) == \E k \in 1 .. Len(out) : out[k].ev = name

C27_PhaseOrder ==
  [][/\ \A c \in CallIds :
          \* the exit timer is set in the task that starts fadeOut
          /\ (calls[c].pc # "timer" /\ calls'[c].pc = "timer") =>
                /\ Called("fadeOut", last'.out)
                /\ ~Called("fadeIn", last'.out)
          \* the gate await and the exit window
          /\ (/\ calls[c].pc \in {"gate", "timer"}
              /\ ~(calls[c].pc = "timer" /\ calls'[c].pc # "timer")) =>
                /\ currentStep' = currentStep
                /\ ~Called("fadeIn", last'.out)
          \* the exit timer fires
          /\ (/\ calls[c].pc = "timer" /\ calls'[c].pc # "timer"
              /\ (calls[c].kind = "back" \/ NotLast(calls[c]))) =>
                /\ c = Head(timers)
                /\ currentStep' = TargetStep(calls[c])
                /\ Called("fadeIn", last'.out)
                /\ ~Called("fadeOut", last'.out)
     /\ (currentStep' # currentStep /\ last'.op # "goToStep") =>
          \E c \in CallIds : calls[c].pc = "timer" /\ calls'[c].pc = "idle"]_vars

\* onBeforeBack has approved and the exit timer of handleBack is running,
\* with currentStep still above 0
C27_Witness ==
  /\ last.op = "gateApproved"
  /\ last.kind = "back"
  /\ currentStep > 0
  /\ \E c \in CallIds : calls[c].pc = "timer" /\ calls[c].currentStep = currentStep

(***************************************************************************)
(* C28.  When handleNext has moved off a step that is not the last into a  *)
(* step without an entry in stepHistory, the entry of the new step has     *)
(* been seeded from formData: it exists and equals formData; when the      *)
(* entry did exist, formData has been replaced by it.                      *)
(***************************************************************************)
C28_SeedOrRestore ==
  [][\A c \in CallIds :
       (/\ calls[c].kind = "next"
        /\ calls[c].pc = "timer"
        /\ calls'[c].pc # "timer"
        /\ NotLast(calls[c])) =>
          IF Has(stepHistory, TargetStep(calls[c]))
            THEN formData' = stepHistory[TargetStep(calls[c])]
            ELSE /\ Has(stepHistory', currentStep')
                 /\ stepHistory'[currentStep'] = formData']_vars

(***************************************************************************)
(* C29.  stepHistory[i] is written whenever the user leaves step i: right  *)
(* after a handleNext, handleBack or handleSkip that has moved currentStep *)
(* away from i, stepHistory[i] exists and equals formData as it was when   *)
(* step i was left, also when handleInputChange never ran on step i.       *)
(***************************************************************************)
C29_SnapshotOnLeave ==
  [][(last'.op = "moved" /\ currentStep' # currentStep) =>
       /\ Has(stepHistory', currentStep)
       /\ stepHistory'[currentStep] = formData]_vars

C31_DirectionFlips ==
  \A a \in animatedQuestion.seen, b \in animatedQuestion.seen :
     a.what = b.what =>
       IF animatedQuestion.preset \in Directional
         THEN a.forward # b.forward => a.offset * b.offset < 0
         ELSE a.offset = b.offset

(***************************************************************************)
(* C32: the map handed to onCompleted is formData as it is when            *)
(* onCompleted is invoked, so that a handleInputChange that has run while  *)
(* handleNext or handleSkip was waiting at its gate or for its fade-out    *)
(* is part of it.                                                          *)
(***************************************************************************)
C32_CompletedWithCurrentData ==
  [][\A k \in Completions(last'.out) :
        last'.op = "submit" => last'.out[k].data = formData']_vars

(***************************************************************************)
(* C33: overlapping advances do not skip a step.  A handleNext or          *)
(* handleSkip invoked at step i < length-1 leaves currentStep at i+1 when  *)
(* it finishes, also when another handleNext or handleSkip invoked at i    *)
(* has finished meanwhile and currentStep is i+1 already.                  *)
(***************************************************************************)
C33_NoSkippedStep ==
  [][\A c \in CallIds :
        (/\ calls[c].pc = "timer"
         /\ calls[c].kind \in {"next", "skip"}
         /\ calls[c].currentStep < Length - 1
         /\ calls'[c].pc = "idle") =>
           currentStep' = calls[c].currentStep + 1]_vars

\* an advance invoked at step i has just finished and moved to i+1 while
\* another advance invoked at i is still waiting for its timer
C33_Witness ==
  /\ last.op = "moved"
  /\ last.kind \in {"next", "skip"}
  /\ \E c \in CallIds :
       /\ calls[c].pc = "timer"
       /\ calls[c].kind \in {"next", "skip"}
       /\ calls[c].currentStep < Length - 1
       /\ currentStep = calls[c].currentStep + 1

(***************************************************************************)
(* C34: isSubmittingStep is true in every state in which a call of         *)
(* onCompleted has not settled yet, also when two calls of handleNext or   *)
(* handleSkip on the last step overlap and the onCompleted of one settles  *)
(* before that of the other.                                               *)
(***************************************************************************)
C34_SubmittingWhilePending ==
  (\E c \in CallIds : calls[c].pc = "completing") => isSubmittingStep

(***************************************************************************)
(* C35: whenever no call is in flight and stepHistory has an entry for     *)
(* currentStep, that entry equals formData, after any sequence of          *)
(* handleInputChange, handleNext, handleBack, handleSkip and goToStep.     *)
(***************************************************************************)
C35_HistoryEntryIsFormData ==
  (Quiet /\ Has(stepHistory, currentStep)) =>
    stepHistory[currentStep] = formData

(***************************************************************************)
(* C36: initial values are defaults only.  When handleInputChange has set  *)
(* a name that also has an initial value, a change of currentStep          *)
(* (handleNext, handleBack, handleSkip) leaves the value set for that name *)
(* in formData, initialValues being the same object throughout.            *)
(***************************************************************************)
C36_InitialValuesAreDefaults ==
  [][currentStep' # currentStep =>
       \A n \in DOMAIN written \cap DOMAIN initialValues :
          (Has(formData, n) /\ formData[n] = written[n]) =>
             (Has(formData', n) /\ formData'[n] = written[n])]_vars

(***************************************************************************)
(* C37: onCompleted is only invoked while currentStep is the last step,    *)
(* and with a map that the schema of the last step accepts, for every      *)
(* order and overlap of handleNext, handleSkip, handleBack,                *)
(* handleInputChange and goToStep.                                         *)
(***************************************************************************)
C37_CompletedAtEndAndValid ==
  [][\A k \in Completions(last'.out) :
        last'.op = "submit" =>
          /\ currentStep' = Length - 1
          /\ SchemaAccepts(Length - 1, last'.out[k].data)]_vars

C39_DirtyOnlyGrows ==
  [][dirtyFields \subseteq dirtyFields']_vars

(***************************************************************************)
(* C40: after currentStep has changed, AnimatedQuestion eventually shows   *)
(* the content of the step that is then current and is idle, also when     *)
(* renders (an input, new errors, another change of currentStep) fall into *)
(* the exit window, the renders being finitely many.                       *)
(***************************************************************************)
C40_AnimationSettles ==
  (animatedQuestion.visibleContent # currentStep) ~>
     (/\ animatedQuestion.visibleContent = currentStep
      /\ animatedQuestion.prevStep = currentStep
      /\ animatedQuestion.phase = "idle"
      /\ ~animatedQuestion.timeout)

\* a render caused by an input falls into the exit window: the content of
\* the step left is still shown and the timeout has been set again
C40_Witness ==
  /\ animatedQuestion.phase = "exiting"
  /\ animatedQuestion.timeout
  /\ animatedQuestion.visibleContent # currentStep
  /\ last.op = "handleInputChange"

====
